---- MODULE Spec2Model ----
(***************************************************************************)
(* Model of the backup cycle and retention engine of                       *)
(* src/onedrive_versioned_backup_interactive/main.py:                      *)
(*   timestamp_stamp, run_robocopy, prune_old_backups, run_once,           *)
(*   headless_run and the __main__ dispatch.                               *)
(*                                                                         *)
(* A name is a sequence of one-character strings.  A datetime is a record  *)
(* [ord, mod, sec]: proleptic Gregorian day ordinal (1 = 0001-01-01),      *)
(* minute of the day and the sub-minute part in seconds.                   *)
(***************************************************************************)
EXTENDS Integers, Sequences, FiniteSets, TLC

(***************************************************************************)
(* Characters and the STAMP_RE test                                        *)
(***************************************************************************)
DigitChars == <<"0", "1", "2", "3", "4", "5", "6", "7", "8", "9">>

IsDigit(c) == \E i \in 1..10 : DigitChars[i] = c

DigitVal(c) == (CHOOSE i \in 1..10 : DigitChars[i] = c) - 1

\* the pattern of STAMP_RE between ^ and $: "d" is \d, anything else a literal
StampPattern ==
    <<"d", "d", "d", "d", "-", "d", "d", "-", "d", "d", "_", "d", "d", "-", "d", "d">>

ClassMatch(cls, c) == IF cls = "d" THEN IsDigit(c) ELSE c = cls

\* where "$" matches (no re.MULTILINE): at the very end of the string, or just
\* before a newline that is the last character of the string
DollarAt(s, pos) ==
    \/ pos = Len(s) + 1
    \/ pos = Len(s) /\ s[pos] = "\n"

\* STAMP_RE.match(name) is not None
StampReMatch(s) ==
    /\ Len(s) >= Len(StampPattern)
    /\ \A i \in 1..Len(StampPattern) : ClassMatch(StampPattern[i], s[i])
    /\ DollarAt(s, Len(StampPattern) + 1)

(***************************************************************************)
(* The calendar of datetime                                                *)
(***************************************************************************)
\* outcomes: a returned value, a raised exception, or nothing yet
None == [none |-> TRUE]

Val(v) == [value |-> v]

Err(e) == [error |-> e]

HasVal(x) == "value" \in DOMAIN x

IsErr(x) == "error" \in DOMAIN x

MINYEAR == 1
MAXYEAR == 9999

IsLeap(y) == y % 4 = 0 /\ (y % 100 # 0 \/ y % 400 = 0)

DaysBeforeMonthTable == <<0, 31, 59, 90, 120, 151, 181, 212, 243, 273, 304, 334>>

DaysInMonthTable == <<31, 28, 31, 30, 31, 30, 31, 31, 30, 31, 30, 31>>

DaysInMonth(y, m) == IF m = 2 /\ IsLeap(y) THEN 29 ELSE DaysInMonthTable[m]

DaysBeforeYear(y) ==
    (y - 1) * 365 + ((y - 1) \div 4) - ((y - 1) \div 100) + ((y - 1) \div 400)

DaysBeforeMonth(y, m) ==
    DaysBeforeMonthTable[m] + (IF m > 2 /\ IsLeap(y) THEN 1 ELSE 0)

Ymd2Ord(y, m, d) == DaysBeforeYear(y) + DaysBeforeMonth(y, m) + d

MaxOrdinal == Ymd2Ord(MAXYEAR, 12, 31)

\* datetime(y, m, d, H, M): ValueError outside the calendar
MakeDatetime(y, m, d, H, M) ==
    IF /\ y \in MINYEAR..MAXYEAR
       /\ m \in 1..12
       /\ d >= 1
       /\ d <= DaysInMonth(y, m)
       /\ H \in 0..23
       /\ M \in 0..59
    THEN [ord |-> Ymd2Ord(y, m, d), mod |-> H * 60 + M, sec |-> 0]
    ELSE Err("ValueError")

\* variant of DtLess: d1 <= d2
DtLessOrEqual(d1, d2) ==
    \/ d1.ord < d2.ord
    \/ d1.ord = d2.ord /\ d1.mod < d2.mod
    \/ d1.ord = d2.ord /\ d1.mod = d2.mod /\ d1.sec <= d2.sec

\* d1 < d2 on datetimes
DtLess(d1, d2) ==
    \/ d1.ord < d2.ord
    \/ d1.ord = d2.ord /\ d1.mod < d2.mod
    \/ d1.ord = d2.ord /\ d1.mod = d2.mod /\ d1.sec < d2.sec

\* now - timedelta(days = days): OverflowError when the timedelta or the
\* resulting date is out of range
MaxTimedeltaDays == 999999999

SubDays(d, days) ==
    IF \/ days > MaxTimedeltaDays
       \/ days < 0 - MaxTimedeltaDays
       \/ d.ord - days < 1
       \/ d.ord - days > MaxOrdinal
    THEN Err("OverflowError")
    ELSE [ord |-> d.ord - days, mod |-> d.mod, sec |-> d.sec]

(***************************************************************************)
(* datetime.strptime(name, "%Y-%m-%d_%H-%M")                               *)
(***************************************************************************)
\* the value of the first k characters of a run of digit characters
RECURSIVE DigitsUpTo(_, _)
DigitsUpTo(s, k) ==
    IF k = 0 THEN 0
    ELSE DigitsUpTo(s, k - 1) * 10 + DigitVal(s[k])

\* the value of a run of digit characters
DigitsVal(s) == DigitsUpTo(s, Len(s))

AllDigits(s) == \A i \in 1..Len(s) : IsDigit(s[i])

InRange(c, lo, hi) == IsDigit(c) /\ DigitVal(c) >= lo /\ DigitVal(c) <= hi

\* the directive regexes of _strptime.TimeRE, each matched against a whole token
TokY(t) == Len(t) = 4 /\ AllDigits(t)

\* %m: 1[0-2]|0[1-9]|[1-9]
Tokm(t) ==
    \/ Len(t) = 2 /\ t[1] = "1" /\ InRange(t[2], 0, 2)
    \/ Len(t) = 2 /\ t[1] = "0" /\ InRange(t[2], 1, 9)
    \/ Len(t) = 1 /\ InRange(t[1], 1, 9)

\* %d: 3[0-1]|[1-2]\d|0[1-9]|[1-9]| [1-9]
Tokd(t) ==
    \/ Len(t) = 2 /\ t[1] = "3" /\ InRange(t[2], 0, 1)
    \/ Len(t) = 2 /\ InRange(t[1], 1, 2) /\ IsDigit(t[2])
    \/ Len(t) = 2 /\ t[1] = "0" /\ InRange(t[2], 1, 9)
    \/ Len(t) = 1 /\ InRange(t[1], 1, 9)
    \/ Len(t) = 2 /\ t[1] = " " /\ InRange(t[2], 1, 9)

\* %H: 2[0-3]|[0-1]\d|\d
TokH(t) ==
    \/ Len(t) = 2 /\ t[1] = "2" /\ InRange(t[2], 0, 3)
    \/ Len(t) = 2 /\ InRange(t[1], 0, 1) /\ IsDigit(t[2])
    \/ Len(t) = 1 /\ IsDigit(t[1])

\* %M: [0-5]\d|\d
TokM(t) ==
    \/ Len(t) = 2 /\ InRange(t[1], 0, 5) /\ IsDigit(t[2])
    \/ Len(t) = 1 /\ IsDigit(t[1])

\* the value of a day token, whose first character may be a space
TokVal(t) == IF t[1] = " " THEN DigitsVal(SubSeq(t, 2, Len(t))) ELSE DigitsVal(t)

\* the ways to cut s into Y-m-d_H-M: <<lm, ld, lH, lM>> are the token lengths
StrptimeCuts(s) ==
    {c \in (1..2) \X (1..2) \X (1..2) \X (1..2) :
        LET pm == 6
            pd == pm + c[1] + 1
            pH == pd + c[2] + 1
            pM == pH + c[3] + 1
        IN  /\ Len(s) = pM + c[4] - 1
            /\ TokY(SubSeq(s, 1, 4))
            /\ s[5] = "-"
            /\ Tokm(SubSeq(s, pm, pm + c[1] - 1))
            /\ s[pd - 1] = "-"
            /\ Tokd(SubSeq(s, pd, pd + c[2] - 1))
            /\ s[pH - 1] = "_"
            /\ TokH(SubSeq(s, pH, pH + c[3] - 1))
            /\ s[pM - 1] = "-"
            /\ TokM(SubSeq(s, pM, pM + c[4] - 1))}

\* the parsed datetime, or ValueError (no match, unconverted data, or a
\* date the calendar does not have)
Strptime(s) ==
    LET fields ==
            { <<DigitsVal(SubSeq(s, 1, 4)),
                DigitsVal(SubSeq(s, 6, 5 + c[1])),
                TokVal(SubSeq(s, 7 + c[1], 6 + c[1] + c[2])),
                DigitsVal(SubSeq(s, 8 + c[1] + c[2], 7 + c[1] + c[2] + c[3])),
                DigitsVal(SubSeq(s, 9 + c[1] + c[2] + c[3],
                                 8 + c[1] + c[2] + c[3] + c[4]))>> :
                c \in StrptimeCuts(s) }
        parsed == { MakeDatetime(f[1], f[2], f[3], f[4], f[5]) : f \in fields }
    IN  IF parsed = {} THEN Err("ValueError") ELSE CHOOSE d \in parsed : TRUE

(***************************************************************************)
(* strftime("%Y-%m-%d_%H-%M")                                              *)
(***************************************************************************)
D2(n) == <<DigitChars[((n \div 10) % 10) + 1], DigitChars[(n % 10) + 1]>>

D4(n) == D2(n \div 100) \o D2(n % 100)

\* the five fields printed in the layout of the format string
StampOf(y, m, d, H, M) ==
    D4(y) \o <<"-">> \o D2(m) \o <<"-">> \o D2(d) \o <<"_">> \o D2(H) \o <<"-">> \o D2(M)

\* datetime._ord2ymd: <<year, month, day>> of day ordinal n
Ord2Ymd(n) ==
    LET n0 == n - 1
        n400 == n0 \div 146097
        r400 == n0 % 146097
        n100 == r400 \div 36524
        r100 == r400 % 36524
        n4 == r100 \div 1461
        r4 == r100 % 1461
        n1 == r4 \div 365
        r1 == r4 % 365
        year == n400 * 400 + 1 + n100 * 100 + n4 * 4 + n1
        leapyear == n1 = 3 /\ (n4 # 24 \/ n100 = 3)
        leapday(m) == IF m > 2 /\ leapyear THEN 1 ELSE 0
        month0 == (r1 + 50) \div 32
        preceding0 == DaysBeforeMonthTable[month0] + leapday(month0)
        month == IF preceding0 > r1 THEN month0 - 1 ELSE month0
        preceding == DaysBeforeMonthTable[month] + leapday(month)
    IN  IF n1 = 4 \/ n100 = 4 THEN <<year - 1, 12, 31>>
        ELSE <<year, month, r1 - preceding + 1>>

\* variant of Strftime: "%Y-%m-%d_%I-%M", the hour of the 12-hour clock
StrftimeTwelveHour(t) ==
    LET ymd == Ord2Ymd(t.ord)
        h == (t.mod \div 60) % 12
    IN  StampOf(ymd[1], ymd[2], ymd[3], IF h = 0 THEN 12 ELSE h, t.mod % 60)

\* datetime.strftime("%Y-%m-%d_%H-%M")
Strftime(t) ==
    LET ymd == Ord2Ymd(t.ord)
    IN  StampOf(ymd[1], ymd[2], ymd[3], t.mod \div 60, t.mod % 60)

(***************************************************************************)
(* Bounds and the inputs the model draws from                              *)
(***************************************************************************)
\* deletions that fail (shutil.rmtree gives up on a folder) in one behaviour
MaxFailures == 1

\* calls of timestamp_stamp in one process run
MaxCalls == 2

\* command-line arguments after the name of the script
MaxArgs == 4

At(y, m, d, H, M, S) == [ord |-> Ymd2Ord(y, m, d), mod |-> H * 60 + M, sec |-> S]

\* the readings of the wall clock (datetime.now(), naive local time)
Instants ==
    { At(2025, 1, 15, 9, 0, 0),
      At(2025, 1, 15, 9, 0, 30),
      At(2025, 1, 15, 9, 1, 0),
      At(2025, 2, 20, 10, 0, 0) }

FirstInstant == At(2025, 1, 15, 9, 0, 0)

\* retention_days as it reaches run_once: int(argv[i + 1]) is any integer
RetentionChoices == {7, 0, 800000, 0 - 3000000}

\* return codes of the robocopy process: the documented 0..7 and 8+, and a
\* negative one of a process that was killed
MirrorCodes == {0 - 1, 0, 1, 2, 3, 4, 5, 6, 7, 8, 16}

\* the codes around the threshold of run_once
ThresholdCodes == {0 - 1, 0, 7, 8, 16}

NoName == <<>>

\* the configuration defaults of the script
DEFAULT_RETENTION_DAYS == 30

DEFAULT_BACKUP_ROOT ==
    <<"D", ":", "\\", "O", "n", "e", "D", "r", "i", "v", "e", "B", "a", "c", "k", "u", "p">>

MyImportantData ==
    <<"M", "y", "I", "m", "p", "o", "r", "t", "a", "n", "t", "D", "a", "t", "a">>

Unpadded == <<"2", "0", "2", "5", "-", "1", "-", "5", "_", "0", "9", "-", "0", "0">>

\* a child of the backup root that is there before the first cycle
Entry(n, k, o) == [name |-> n, kind |-> k, owner |-> o]

\* user content that is no snapshot folder: a foreign directory, a file with
\* a snapshot name (the one of the third instant), a directory whose name is
\* no date
ForeignScene ==
    { Entry(MyImportantData, "dir", "user"),
      Entry(StampOf(2025, 1, 15, 9, 1), "file", "user"),
      Entry(StampOf(2025, 13, 40, 25, 99), "dir", "user") }

\* snapshot-named folders: two left by earlier runs of the program, 7 days
\* and 7 days plus a minute before the first instant, and one made by the user
SnapshotScene ==
    { Entry(StampOf(2025, 1, 8, 9, 0), "dir", "system"),
      Entry(StampOf(2025, 1, 8, 8, 59), "dir", "system"),
      Entry(StampOf(2024, 12, 1, 9, 0), "dir", "user") }

\* near misses of the snapshot shape next to an old snapshot
MixedScene ==
    { Entry(Unpadded, "dir", "user"),
      Entry(StampOf(2024, 12, 1, 9, 0) \o <<"\n">>, "dir", "user"),
      Entry(StampOf(2025, 1, 8, 8, 59), "dir", "system") }

\* the backup roots the model starts from
Scenes == { {}, ForeignScene, SnapshotScene, MixedScene }

\* the directory made of the catalog entries in S
TreeOf(S) ==
    [n \in {e.name : e \in S} |->
        LET e == CHOOSE x \in S : x.name = n
        IN  [kind |-> e.kind, owner |-> e.owner, data |-> "old"]]

Procs == {"p1", "p2"}

(***************************************************************************)
(* State                                                                   *)
(***************************************************************************)
VARIABLES
    clock,       \* datetime.now()
    srcKind,     \* what onedrive_path() points at: "missing", "file" or "dir"
    rootInSrc,   \* backup_root is the source directory or lies below it
    argDays,     \* the --retention-days the program is run with
    codes,       \* the codes the mirror process ends with in this environment
    rootExists,  \* backup_root exists
    children,    \* immediate children of backup_root: name -> [kind, owner, data]
    active,      \* the processes that run cycles
    failures,    \* deletions that have failed so far
    pc,          \* position of each process in __main__ / run_once
    rd,          \* retention_days of the running cycle
    dst,         \* name of the destination folder of the running cycle
    rc,          \* return code of the mirror process
    cutoff,      \* cutoff of the prune pass
    todo,        \* children the prune loop has still to visit
    listing,     \* the directory as the prune pass found it
    removed,     \* names shutil.rmtree was called on in this pass
    calls,       \* what run_once has called so far in this cycle
    result,      \* what run_once returned, or the exception that left it
    status,      \* exit status of the process
    stamps,      \* what successive calls of timestamp_stamp() returned
    reads,       \* the clock readings of these calls
    parsedOut,   \* what strptime made of the last of these identifiers
    argv,        \* sys.argv[1:]
    argi,        \* parse_args: the index i, counted from 1
    args,        \* parse_args: the dict args
    warnings,    \* parse_args: warnings printed to stderr
    parsed,      \* what parse_args returned
    ipc,         \* position of interactive_main
    said,        \* the prompts interactive_main has shown, and its messages
    task,        \* the Scheduled Task: "absent", "enabled" or "disabled"
    iret,        \* what interactive_main returned, or the exception that left it
    cmds         \* the schtasks commands run so far, each with its return code

\* the state of a process that only calls timestamp_stamp and parses its result
namer == <<stamps, reads, parsedOut>>

\* the state of parse_args
cli == <<argv, argi, args, warnings, parsed>>

\* the state of interactive_main
menu == <<ipc, said, task, iret, cmds>>

vars ==
    <<clock, srcKind, rootInSrc, argDays, codes, rootExists, children, active, failures, pc, rd,
      dst, rc, cutoff, todo, listing, removed, calls, result, status, namer, cli, menu>>

\* what no step of a backup cycle changes
env == <<srcKind, rootInSrc, argDays, codes, active, namer, cli, menu>>

\* the locals of a process that has not started a cycle
locals == <<rd, dst, rc, cutoff, todo, listing, removed, calls, result, status>>

InitLocals ==
    /\ pc = [p \in Procs |-> "idle"]
    /\ rd = [p \in Procs |-> 0]
    /\ dst = [p \in Procs |-> NoName]
    /\ rc = [p \in Procs |-> None]
    /\ cutoff = [p \in Procs |-> None]
    /\ todo = [p \in Procs |-> {}]
    /\ listing = [p \in Procs |-> TreeOf({})]
    /\ removed = [p \in Procs |-> {}]
    /\ calls = [p \in Procs |-> <<>>]
    /\ result = [p \in Procs |-> None]
    /\ status = [p \in Procs |-> None]

\* no call of timestamp_stamp outside of run_once
NamerAtRest ==
    /\ stamps = <<>>
    /\ reads = <<>>
    /\ parsedOut = None

\* the dict parse_args starts from
DefaultArgs ==
    [mode |-> "interactive",
     backup_root |-> DEFAULT_BACKUP_ROOT,
     retention_days |-> DEFAULT_RETENTION_DAYS]

\* parse_args is not looked at
CliAtRest ==
    /\ argv = <<>>
    /\ argi = 1
    /\ args = DefaultArgs
    /\ warnings = 0
    /\ parsed = None

\* interactive_main is not run
MenuAtRest ==
    /\ ipc = "off"
    /\ said = <<>>
    /\ task = "absent"
    /\ iret = None
    /\ cmds = <<>>

\* the program in headless mode, as the Scheduled Task runs it
Headless ==
    /\ NamerAtRest
    /\ CliAtRest
    /\ MenuAtRest

\* the world before the first cycle: a backup root out of scenes, run with
\* one of the retentions rets, the mirror process ending with a code of cs
InitWorld(scenes, rets, cs) ==
    /\ clock = FirstInstant
    /\ srcKind \in {"missing", "file", "dir"}
    /\ rootInSrc \in BOOLEAN
    /\ argDays \in rets
    /\ codes = cs
    /\ \E S \in scenes : children = TreeOf(S)
    /\ rootExists \in BOOLEAN
    /\ (DOMAIN children # {} => rootExists)
    /\ failures = 0

Init ==
    /\ InitWorld(Scenes, RetentionChoices, ThresholdCodes)
    /\ InitLocals
    /\ active = {"p1"}
    /\ Headless

\* one backup root, every return code of the mirror process
InitCodes ==
    /\ InitWorld({{}, SnapshotScene}, {7}, MirrorCodes)
    /\ InitLocals
    /\ active = {"p1"}
    /\ Headless

(***************************************************************************)
(* Helpers of the actions                                                  *)
(***************************************************************************)
\* timestamp_stamp(): dt.datetime.now().strftime("%Y-%m-%d_%H-%M")
TimestampStamp(now) == Strftime(now)

\* variant of SourceExists: the check is left out
SourceAssumed(kind) == TRUE

\* run_once: "if not src.exists()"
SourceExists(kind) == kind # "missing"

\* variant of IsSuccess: "if rc <= 8"
IsSuccessUpTo8(code) == code <= 8

\* run_once: "if rc < 8"
IsSuccess(code) == code < 8

\* variant of IsCandidate: the is_dir() test is left out
IsCandidateAnyKind(tree, n) ==
    /\ n \in DOMAIN tree
    /\ StampReMatch(n)

\* prune_old_backups: "child.is_dir() and STAMP_RE.match(child.name)"
IsCandidate(tree, n) ==
    /\ n \in DOMAIN tree
    /\ tree[n].kind = "dir"
    /\ StampReMatch(n)

\* variant of IsExpired: a name that does not parse falls through to the
\* deletion
IsExpiredOrUnparsed(n, cut) ==
    \/ IsErr(Strptime(n))
    \/ DtLess(Strptime(n), cut)

\* variant of IsExpired: the dates are compared, not the times of day
IsExpiredByDate(n, cut) ==
    /\ ~IsErr(Strptime(n))
    /\ Strptime(n).ord < cut.ord

\* prune_old_backups: "except ValueError: continue", then "if d < cutoff"
IsExpired(n, cut) ==
    \E d \in {Strptime(n)} :
        /\ ~IsErr(d)
        /\ DtLess(d, cut)

\* the directory without entry n
Without(tree, n) == [m \in DOMAIN tree \ {n} |-> tree[m]]

\* the directory with entry n set to e
With(tree, n, e) == [m \in DOMAIN tree \cup {n} |-> IF m = n THEN e ELSE tree[m]]

\* what the mirror leaves in the destination: robocopy /MIR copies (bit 1)
\* and purges extra entries (bit 2), which makes the content "new"; with a
\* code >= 8 files could not be copied and the content is "incomplete"
MirrorData(old, code) ==
    IF code \in {1, 2, 3, 5, 6, 7} THEN "new"
    ELSE IF code >= 8 THEN "incomplete"
    ELSE old

\* the codes the mirror process can end with
CodesFor(kind) == IF kind = "dir" THEN codes ELSE {c \in codes : c >= 8}

\* run_once is left, by a return or by an exception
Leave(p, value) ==
    /\ result' = [result EXCEPT ![p] = value]
    /\ pc' = [pc EXCEPT ![p] = "returned"]

(***************************************************************************)
(* Actions                                                                 *)
(***************************************************************************)
\* __main__ in headless mode: headless_run(backup_root, retention_days) calls
\* run_once, which resolves the source and checks that it exists
Start(p) ==
    /\ p \in active
    /\ pc[p] \in {"idle", "exited"}
    /\ rd' = [rd EXCEPT ![p] = argDays]
    /\ dst' = [dst EXCEPT ![p] = NoName]
    /\ rc' = [rc EXCEPT ![p] = None]
    /\ cutoff' = [cutoff EXCEPT ![p] = None]
    /\ todo' = [todo EXCEPT ![p] = {}]
    /\ listing' = [listing EXCEPT ![p] = TreeOf({})]
    /\ removed' = [removed EXCEPT ![p] = {}]
    /\ calls' = [calls EXCEPT ![p] = <<>>]
    /\ status' = [status EXCEPT ![p] = None]
    /\ IF SourceExists(srcKind)
       THEN /\ pc' = [pc EXCEPT ![p] = "mkroot"]
            /\ result' = [result EXCEPT ![p] = None]
       ELSE Leave(p, Val(1))
    /\ UNCHANGED <<clock, env, rootExists, children, failures>>

\* run_once: backup_root.mkdir(parents=True, exist_ok=True)
MkRoot(p) ==
    /\ pc[p] = "mkroot"
    /\ calls' = [calls EXCEPT ![p] = Append(@, "mkdir root")]
    /\ \/ /\ rootExists' = TRUE
          /\ pc' = [pc EXCEPT ![p] = "mkdst"]
          /\ UNCHANGED result
       \/ /\ ~rootExists
          /\ Leave(p, Err("OSError"))
          /\ UNCHANGED rootExists
    /\ UNCHANGED <<clock, env, children, failures, rd, dst, rc, cutoff, todo,
                   listing, removed, status>>

\* variant of MkDst: the prune pass is called before the mirror
MkDstThenPrune(p) ==
    /\ pc[p] = "mkdst"
    /\ calls' = [calls EXCEPT ![p] = Append(@, "mkdir dst")]
    /\ LET n == TimestampStamp(clock)
       IN  /\ dst' = [dst EXCEPT ![p] = n]
           /\ IF n \in DOMAIN children
              THEN IF children[n].kind = "dir"
                   THEN /\ pc' = [pc EXCEPT ![p] = "prune"]
                        /\ UNCHANGED <<children, rootExists, result>>
                   ELSE /\ Leave(p, Err("FileExistsError"))
                        /\ UNCHANGED <<children, rootExists>>
              ELSE \/ /\ children' =
                           With(children, n,
                                [kind |-> "dir", owner |-> "system", data |-> "new"])
                      /\ rootExists' = TRUE
                      /\ pc' = [pc EXCEPT ![p] = "prune"]
                      /\ UNCHANGED result
                   \/ /\ Leave(p, Err("OSError"))
                      /\ UNCHANGED <<children, rootExists>>
    /\ UNCHANGED <<clock, env, failures, rd, rc, cutoff, todo, listing, removed, status>>

\* run_once: dst = backup_root / timestamp_stamp(), then run_robocopy:
\* dst.mkdir(parents=True, exist_ok=True)
MkDst(p) ==
    /\ pc[p] = "mkdst"
    /\ calls' = [calls EXCEPT ![p] = Append(@, "mkdir dst")]
    /\ LET n == TimestampStamp(clock)
       IN  /\ dst' = [dst EXCEPT ![p] = n]
           /\ IF n \in DOMAIN children
              THEN IF children[n].kind = "dir"
                   THEN /\ pc' = [pc EXCEPT ![p] = "mirror"]
                        /\ UNCHANGED <<children, rootExists, result>>
                   ELSE /\ Leave(p, Err("FileExistsError"))
                        /\ UNCHANGED <<children, rootExists>>
              ELSE \/ /\ children' =
                           With(children, n,
                                [kind |-> "dir", owner |-> "system", data |-> "new"])
                      /\ rootExists' = TRUE
                      /\ pc' = [pc EXCEPT ![p] = "mirror"]
                      /\ UNCHANGED result
                   \/ /\ Leave(p, Err("OSError"))
                      /\ UNCHANGED <<children, rootExists>>
    /\ UNCHANGED <<clock, env, failures, rd, rc, cutoff, todo, listing, removed, status>>

\* variant of Mirror: a cycle that removes its destination folder when the
\* mirror failed
MirrorCleaningUp(p, code) ==
    /\ pc[p] = "mirror"
    /\ code \in CodesFor(srcKind)
    /\ calls' = [calls EXCEPT ![p] = Append(@, "robocopy")]
    /\ rc' = [rc EXCEPT ![p] = Val(code)]
    /\ children' =
          IF dst[p] \in DOMAIN children
          THEN IF IsSuccess(code)
               THEN [children EXCEPT ![dst[p]].data = MirrorData(@, code)]
               ELSE Without(children, dst[p])
          ELSE children
    /\ IF IsSuccess(code)
       THEN /\ pc' = [pc EXCEPT ![p] = "prune"]
            /\ UNCHANGED result
       ELSE Leave(p, Val(code))
    /\ UNCHANGED <<clock, env, rootExists, failures, rd, dst, cutoff, todo, listing,
                   removed, status>>

\* run_robocopy: subprocess.run(cmd) and "return completed.returncode";
\* run_once: "if rc < 8" chooses between the prune pass and "return rc"
Mirror(p, code) ==
    /\ pc[p] = "mirror"
    /\ code \in CodesFor(srcKind)
    /\ calls' = [calls EXCEPT ![p] = Append(@, "robocopy")]
    /\ rc' = [rc EXCEPT ![p] = Val(code)]
    /\ children' =
          IF dst[p] \in DOMAIN children
          THEN [children EXCEPT ![dst[p]].data = MirrorData(@, code)]
          ELSE children
    /\ IF IsSuccess(code)
       THEN /\ pc' = [pc EXCEPT ![p] = "prune"]
            /\ UNCHANGED result
       ELSE Leave(p, Val(code))
    /\ UNCHANGED <<clock, env, rootExists, failures, rd, dst, cutoff, todo, listing,
                   removed, status>>

\* run_robocopy: subprocess.run cannot start the robocopy executable
MirrorSpawnFails(p) ==
    /\ pc[p] = "mirror"
    /\ calls' = [calls EXCEPT ![p] = Append(@, "robocopy")]
    /\ Leave(p, Err("FileNotFoundError"))
    /\ UNCHANGED <<clock, env, rootExists, children, failures, rd, dst, rc, cutoff,
                   todo, listing, removed, status>>

\* prune_old_backups: cutoff = now - timedelta(days=retention_days), then
\* root.iterdir() lists the directory
PruneBegin(p) ==
    /\ pc[p] = "prune"
    /\ calls' = [calls EXCEPT ![p] = Append(@, "prune")]
    /\ LET cut == SubDays(clock, rd[p])
       IN  IF IsErr(cut)
           THEN /\ Leave(p, cut)
                /\ UNCHANGED <<cutoff, todo, listing>>
           ELSE \/ /\ cutoff' = [cutoff EXCEPT ![p] = cut]
                   /\ todo' = [todo EXCEPT ![p] = DOMAIN children]
                   /\ listing' = [listing EXCEPT ![p] = children]
                   /\ pc' = [pc EXCEPT ![p] = "loop"]
                   /\ UNCHANGED result
                \/ /\ Leave(p, Err("OSError"))
                   /\ UNCHANGED <<cutoff, todo, listing>>
    /\ UNCHANGED <<clock, env, rootExists, children, failures, rd, dst, rc, removed,
                   status>>

\* variant of PruneStep: shutil.rmtree(child) without ignore_errors, a
\* deletion that fails raises and ends the pass
PruneStepAborting(p, n, gone) ==
    /\ pc[p] = "loop"
    /\ n \in todo[p]
    /\ todo' = [todo EXCEPT ![p] = @ \ {n}]
    /\ IF IsCandidate(children, n) /\ IsExpired(n, cutoff[p])
       THEN /\ removed' = [removed EXCEPT ![p] = @ \cup {n}]
            /\ IF gone
               THEN /\ children' = Without(children, n)
                    /\ UNCHANGED <<failures, pc, result>>
               ELSE /\ failures < MaxFailures
                    /\ children' = [children EXCEPT ![n].data = "partial"]
                    /\ failures' = failures + 1
                    /\ Leave(p, Err("OSError"))
       ELSE /\ gone
            /\ UNCHANGED <<removed, children, failures, pc, result>>
    /\ UNCHANGED <<clock, env, rootExists, rd, dst, rc, cutoff, listing, calls, status>>

\* prune_old_backups: one iteration of "for child in root.iterdir()";
\* shutil.rmtree(child, ignore_errors=True) removes the tree (gone) or fails
\* on the way and leaves the rest of it
PruneStep(p, n, gone) ==
    /\ pc[p] = "loop"
    /\ n \in todo[p]
    /\ todo' = [todo EXCEPT ![p] = @ \ {n}]
    /\ IF IsCandidate(children, n) /\ IsExpired(n, cutoff[p])
       THEN /\ removed' = [removed EXCEPT ![p] = @ \cup {n}]
            /\ IF gone
               THEN /\ children' = Without(children, n)
                    /\ UNCHANGED failures
               ELSE /\ failures < MaxFailures
                    /\ children' = [children EXCEPT ![n].data = "partial"]
                    /\ failures' = failures + 1
       ELSE /\ gone
            /\ UNCHANGED <<removed, children, failures>>
    /\ UNCHANGED <<clock, env, rootExists, pc, rd, dst, rc, cutoff, listing,
                   calls, result, status>>

\* variant of ReturnAfterPrune: "return rc"
ReturnMirrorCode(code) == code

\* run_once after the prune pass: "return 0"
ReturnAfterPrune(code) == 0

\* prune_old_backups returns, and run_once with it
PruneEnd(p) ==
    /\ pc[p] = "loop"
    /\ todo[p] = {}
    /\ Leave(p, Val(ReturnAfterPrune(rc[p].value)))
    /\ UNCHANGED <<clock, env, rootExists, children, failures, rd, dst, rc, cutoff,
                   todo, listing, removed, calls, status>>

\* variant of ExitStatus: sys.exit(bool(value))
ExitStatusFlag(outcome) ==
    IF IsErr(outcome) THEN 1 ELSE IF outcome.value = 0 THEN 0 ELSE 1

\* the exit status of sys.exit(value); an exception that nothing catches
\* ends the interpreter with status 1
ExitStatus(outcome) == IF IsErr(outcome) THEN 1 ELSE outcome.value

\* __main__: sys.exit(headless_run(...))
Exit(p) ==
    /\ pc[p] = "returned"
    /\ status' = [status EXCEPT ![p] = Val(ExitStatus(result[p]))]
    /\ pc' = [pc EXCEPT ![p] = "exited"]
    /\ UNCHANGED <<clock, env, rootExists, children, failures, rd, dst, rc, cutoff,
                   todo, listing, removed, calls, result>>

\* time passes; the clock is read by timestamp_stamp (MkDst) and by
\* prune_old_backups (PruneBegin) only, so it is enough to let it advance
\* between two cycles and while a mirror runs
Tick(t) ==
    /\ t \in Instants
    /\ DtLess(clock, t)
    /\ \E p \in active : pc[p] \in {"exited", "mirror"}
    /\ clock' = t
    /\ UNCHANGED <<env, rootExists, children, failures, pc, locals>>

Next ==
    \/ \E p \in Procs : Start(p)
    \/ \E p \in Procs : MkRoot(p)
    \/ \E p \in Procs : MkDst(p)
    \/ \E p \in Procs, c \in MirrorCodes : Mirror(p, c)
    \/ \E p \in Procs : MirrorSpawnFails(p)
    \/ \E p \in Procs : PruneBegin(p)
    \/ \E p \in Procs, n \in DOMAIN children, g \in BOOLEAN : PruneStep(p, n, g)
    \/ \E p \in Procs : PruneEnd(p)
    \/ \E p \in Procs : Exit(p)
    \/ \E t \in Instants : Tick(t)

Spec == Init /\ [][Next]_vars

SpecCodes == InitCodes /\ [][Next]_vars

\* the mirror codes of the runs that overlap: a success and a failure
OverlapCodes == {0, 8}

\* two runs of the Scheduled Task on the same backup root, which is empty at
\* first, with a retention of 7 days; no lock keeps the second from starting
\* while the first is at work
InitOverlap ==
    /\ InitWorld({{}}, {7}, OverlapCodes)
    /\ srcKind = "dir"
    /\ ~rootInSrc
    /\ InitLocals
    /\ active = Procs
    /\ Headless

SpecOverlap == InitOverlap /\ [][Next]_vars

\* the "for" loop of prune_old_backups is straight-line code of one thread:
\* while children are left it takes the next one, and then it returns
LoopRuns(p) ==
    \/ \E n \in DOMAIN children, g \in BOOLEAN : PruneStep(p, n, g)
    \/ PruneEnd(p)

\* a backup root with snapshot folders outside the source, with a prune loop
\* that keeps running
InitPass ==
    /\ InitWorld({SnapshotScene}, {7}, ThresholdCodes)
    /\ ~rootInSrc
    /\ InitLocals
    /\ active = {"p1"}
    /\ Headless

SpecPass == InitPass /\ [][Next]_vars /\ \A p \in Procs : WF_vars(LoopRuns(p))

(***************************************************************************)
(* timestamp_stamp called again and again, and its result parsed           *)
(***************************************************************************)
\* readings of datetime.now() for the round trip: first and last days of
\* years from the epoch of time.time() to MAXYEAR, leap days, single-digit
\* and two-digit fields, the first and the last minute of a day
RoundTripInstants ==
    { At(y, md[1], md[2], hm[1], hm[2], sec) :
        y \in {1970, 2000, 2024, 2025, 2100, MAXYEAR},
        md \in {<<1, 1>>, <<2, 28>>, <<3, 1>>, <<10, 5>>, <<12, 31>>},
        hm \in {<<0, 0>>, <<9, 5>>, <<12, 30>>, <<23, 59>>},
        sec \in {0, 59} }
    \cup { At(y, 2, 29, 9, 0, 0) : y \in {2000, 2024} }

\* readings of the local wall clock around the ends of a minute, a day, a
\* month and a year
WallClockInstants ==
    { At(2024, 12, 31, 23, 59, 30),
      At(2025, 1, 1, 0, 0, 0),
      At(2025, 1, 1, 0, 0, 45),
      At(2025, 9, 30, 10, 0, 0),
      At(2025, 10, 1, 2, 30, 0) }

\* the world of a process that runs no backup cycle
NoCycle ==
    /\ srcKind = "dir"
    /\ rootInSrc = FALSE
    /\ argDays = DEFAULT_RETENTION_DAYS
    /\ codes = {}
    /\ rootExists = FALSE
    /\ children = TreeOf({})
    /\ failures = 0
    /\ active = {}
    /\ InitLocals

backup == <<srcKind, rootInSrc, argDays, codes, rootExists, children, active, failures, pc, locals>>

InitRoundTrip ==
    /\ NoCycle
    /\ NamerAtRest
    /\ CliAtRest
    /\ MenuAtRest
    /\ clock \in RoundTripInstants

InitWallClock ==
    /\ NoCycle
    /\ NamerAtRest
    /\ CliAtRest
    /\ MenuAtRest
    /\ clock \in WallClockInstants

\* timestamp_stamp(): one more call, of at most max
CallStamp(max) ==
    /\ Len(stamps) < max
    /\ stamps' = Append(stamps, TimestampStamp(clock))
    /\ reads' = Append(reads, clock)
    /\ UNCHANGED <<clock, backup, parsedOut, cli, menu>>

\* prune_old_backups meets the identifier as the name of a folder:
\* dt.datetime.strptime(child.name, "%Y-%m-%d_%H-%M")
ParseStamp ==
    /\ stamps # <<>>
    /\ parsedOut = None
    /\ parsedOut' = Strptime(stamps[Len(stamps)])
    /\ UNCHANGED <<clock, backup, stamps, reads, cli, menu>>

\* the local wall clock goes on
ClockAdvances(t) ==
    /\ t \in WallClockInstants
    /\ DtLess(clock, t)
    /\ clock' = t
    /\ UNCHANGED <<backup, namer, cli, menu>>

\* the local wall clock is set back: the end of daylight saving time, a
\* correction of the system time
ClockSetBack(t) ==
    /\ t \in WallClockInstants
    /\ DtLess(t, clock)
    /\ clock' = t
    /\ UNCHANGED <<backup, namer, cli, menu>>

NextRoundTrip ==
    \/ CallStamp(1)
    \/ ParseStamp

SpecRoundTrip == InitRoundTrip /\ [][NextRoundTrip]_vars

NextWallClock ==
    \/ CallStamp(MaxCalls)
    \/ \E t \in WallClockInstants : ClockAdvances(t)
    \/ \E t \in WallClockInstants : ClockSetBack(t)

SpecWallClock == InitWallClock /\ [][NextWallClock]_vars

(***************************************************************************)
(* parse_args                                                              *)
(***************************************************************************)
HeadlessFlag == <<"-", "-", "h", "e", "a", "d", "l", "e", "s", "s", "-", "r", "u", "n">>

BackupRootFlag == <<"-", "-", "b", "a", "c", "k", "u", "p", "-", "r", "o", "o", "t">>

RetentionFlag ==
    <<"-", "-", "r", "e", "t", "e", "n", "t", "i", "o", "n", "-", "d", "a", "y", "s">>

\* the tokens of a command line: the three flags, two integers and a value
\* that is no integer
ArgTokens ==
    { HeadlessFlag, BackupRootFlag, RetentionFlag, <<"7">>, <<"-", "3">>, <<"7", "d">> }

\* int(s) of a string: blanks around it are stripped, then an optional sign,
\* then digits, single underscores allowed between them; ValueError otherwise
IntOf(s) ==
    LET inner == {i \in 1..Len(s) : s[i] # " "}
        lo == CHOOSE i \in inner : \A j \in inner : i <= j
        hi == CHOOSE i \in inner : \A j \in inner : j <= i
        signed == s[lo] \in {"+", "-"}
        t == SubSeq(s, IF signed THEN lo + 1 ELSE lo, hi)
        wellFormed ==
            /\ Len(t) >= 1
            /\ \A i \in 1..Len(t) : IsDigit(t[i]) \/ t[i] = "_"
            /\ IsDigit(t[1])
            /\ IsDigit(t[Len(t)])
            /\ \A i \in 1..(Len(t) - 1) : ~(t[i] = "_" /\ t[i + 1] = "_")
        magnitude == DigitsVal(SelectSeq(t, IsDigit))
    IN  IF inner = {} THEN Err("ValueError")
        ELSE IF ~wellFormed THEN Err("ValueError")
        ELSE Val(IF s[lo] = "-" THEN 0 - magnitude ELSE magnitude)

\* the command lines the model draws from
ArgLines == UNION { [1..n -> ArgTokens] : n \in 0..MaxArgs }

InitArgs ==
    /\ NoCycle
    /\ clock = FirstInstant
    /\ NamerAtRest
    /\ MenuAtRest
    /\ argv \in ArgLines
    /\ argi = 1
    /\ args = DefaultArgs
    /\ warnings = 0
    /\ parsed = None

\* parse_args: one turn of "while i < len(argv)"
ParseArg ==
    /\ parsed = None
    /\ argi <= Len(argv)
    /\ LET tok == argv[argi]
           valued == argi + 1 <= Len(argv)
       IN  IF tok = HeadlessFlag
           THEN /\ args' = [args EXCEPT !.mode = "headless"]
                /\ argi' = argi + 1
                /\ UNCHANGED warnings
           ELSE IF tok = BackupRootFlag /\ valued
           THEN /\ args' = [args EXCEPT !.backup_root = argv[argi + 1]]
                /\ argi' = argi + 2
                /\ UNCHANGED warnings
           ELSE IF tok = RetentionFlag /\ valued
           THEN /\ IF HasVal(IntOf(argv[argi + 1]))
                   THEN /\ args' = [args EXCEPT !.retention_days = IntOf(argv[argi + 1]).value]
                        /\ UNCHANGED warnings
                   ELSE /\ warnings' = warnings + 1
                        /\ UNCHANGED args
                /\ argi' = argi + 2
           ELSE /\ argi' = argi + 1
                /\ UNCHANGED <<args, warnings>>
    /\ UNCHANGED <<clock, backup, namer, menu, argv, parsed>>

\* parse_args: "return args"
ParseReturn ==
    /\ parsed = None
    /\ argi > Len(argv)
    /\ parsed' = args
    /\ UNCHANGED <<clock, backup, namer, menu, argv, argi, args, warnings>>

NextArgs ==
    \/ ParseArg
    \/ ParseReturn

SpecArgs == InitArgs /\ [][NextArgs]_vars

(***************************************************************************)
(* interactive_main                                                        *)
(***************************************************************************)
\* answers to the retention prompt: prompt_int_with_default(min_value=1)
\* returns any run of digits that is at least 1
PromptedRetentions == {7, 800000}

\* return codes of "schtasks /Create": 0, or 1 on an error
SchtasksCodes == {0, 1}

\* what the cycle and interactive_main share is the world, not the locals
world == <<clock, srcKind, rootInSrc, codes, rootExists, children, failures>>

\* interactive_main is started; the backup root is the answer to its second
\* prompt, the Scheduled Task may be there from an earlier session
InitMenu ==
    /\ InitWorld({{}, SnapshotScene}, {DEFAULT_RETENTION_DAYS}, ThresholdCodes)
    /\ InitLocals
    /\ active = {}
    /\ NamerAtRest
    /\ CliAtRest
    /\ ipc = "config"
    /\ said = <<>>
    /\ task \in {"absent", "enabled"}
    /\ iret = None
    /\ cmds = <<>>

\* interactive_main, step 1: the prompts for the settings
MenuConfigure(days) ==
    /\ ipc = "config"
    /\ days \in PromptedRetentions
    /\ argDays' = days
    /\ ipc' = "ask backup"
    /\ UNCHANGED <<world, active, pc, locals, namer, cli, said, task, iret, cmds>>

\* interactive_main, step 2: "Run a one-time backup now?" and, on yes, the
\* call of run_once
MenuAskBackup(yes) ==
    /\ ipc = "ask backup"
    /\ said' = Append(said, "backup?")
    /\ IF yes
       THEN /\ active' = {"p1"}
            /\ ipc' = "backup"
       ELSE /\ ipc' = "ask install"
            /\ UNCHANGED active
    /\ UNCHANGED <<world, argDays, pc, locals, namer, cli, task, iret, cmds>>

\* run_once has returned to interactive_main ("if rc >= 8" prints a
\* message), or its exception goes on through interactive_main
MenuBackupReturns ==
    /\ ipc = "backup"
    /\ pc["p1"] = "returned"
    /\ active' = {}
    /\ IF HasVal(result["p1"])
       THEN /\ ipc' = "ask install"
            /\ said' = IF result["p1"].value >= 8
                        THEN Append(said, "backup failed")
                        ELSE said
            /\ UNCHANGED iret
       ELSE /\ ipc' = "aborted"
            /\ iret' = result["p1"]
            /\ UNCHANGED said
    /\ UNCHANGED <<world, argDays, pc, locals, namer, cli, task, cmds>>

\* interactive_main, step 3: "Install or update the Scheduled Task with
\* these settings?" and, on yes, install_task, which returns the code of
\* schtasks
MenuAskInstall(yes, code) ==
    /\ ipc = "ask install"
    /\ code \in SchtasksCodes
    /\ IF yes
       THEN /\ cmds' = Append(cmds, <<"create", code>>)
            /\ task' = IF code = 0 THEN "enabled" ELSE task
            /\ said' = IF code # 0
                        THEN said \o <<"install?", "registration failed">>
                        ELSE Append(said, "install?")
       ELSE /\ code = 0
            /\ said' = Append(said, "install?")
            /\ UNCHANGED <<task, cmds>>
    /\ ipc' = "ask stop"
    /\ UNCHANGED <<world, argDays, active, pc, locals, namer, cli, iret>>

\* interactive_main, step 4: "Do you want to stop (disable/delete) the
\* Scheduled Task now?"; on yes stop_task is called, on no "Done." is
\* printed and 0 returned
MenuAskStop(yes) ==
    /\ ipc = "ask stop"
    /\ said' = Append(said, "stop?")
    /\ IF yes
       THEN /\ ipc' = "disable"
            /\ UNCHANGED iret
       ELSE /\ ipc' = "done"
            /\ iret' = Val(0)
    /\ UNCHANGED <<world, argDays, active, pc, locals, namer, cli, task, cmds>>

\* the codes schtasks can end with on the task as it is: a task that does
\* not exist can be neither changed nor deleted
SchtasksCodesOn(t) == IF t = "absent" THEN SchtasksCodes \ {0} ELSE SchtasksCodes

\* a stop_task that goes on to the delete command after a successful disable
StopDisableAndDelete(code) ==
    /\ ipc = "disable"
    /\ code \in SchtasksCodesOn(task)
    /\ cmds' = Append(cmds, <<"disable", code>>)
    /\ ipc' = "delete"
    /\ IF code = 0
       THEN /\ task' = "disabled"
            /\ said' = Append(said, "task disabled")
       ELSE UNCHANGED <<task, said>>
    /\ UNCHANGED <<world, argDays, active, pc, locals, namer, cli, iret>>

\* stop_task, first attempt: "schtasks /Change /TN name /Disable"; on code 0
\* it prints "disabled" and returns, and interactive_main returns 0
StopDisable(code) ==
    /\ ipc = "disable"
    /\ code \in SchtasksCodesOn(task)
    /\ cmds' = Append(cmds, <<"disable", code>>)
    /\ IF code = 0
       THEN /\ task' = "disabled"
            /\ said' = Append(said, "task disabled")
            /\ ipc' = "done"
            /\ iret' = Val(0)
       ELSE /\ ipc' = "delete"
            /\ UNCHANGED <<task, said, iret>>
    /\ UNCHANGED <<world, argDays, active, pc, locals, namer, cli>>

\* stop_task, second attempt: "schtasks /Delete /TN name /F", then the
\* message; interactive_main prints "Done." and returns 0
StopDelete(code) ==
    /\ ipc = "delete"
    /\ code \in SchtasksCodesOn(task)
    /\ cmds' = Append(cmds, <<"delete", code>>)
    /\ IF code = 0
       THEN /\ task' = "absent"
            /\ said' = Append(said, "task deleted")
       ELSE /\ said' = Append(said, "no task found")
            /\ UNCHANGED task
    /\ ipc' = "done"
    /\ iret' = Val(0)
    /\ UNCHANGED <<world, argDays, active, pc, locals, namer, cli>>

NextMenu ==
    \/ \E d \in PromptedRetentions : MenuConfigure(d)
    \/ \E y \in BOOLEAN : MenuAskBackup(y)
    \/ \E p \in Procs : Start(p)
    \/ \E p \in Procs : MkRoot(p)
    \/ \E p \in Procs : MkDst(p)
    \/ \E p \in Procs, c \in MirrorCodes : Mirror(p, c)
    \/ \E p \in Procs : MirrorSpawnFails(p)
    \/ \E p \in Procs : PruneBegin(p)
    \/ \E p \in Procs, n \in DOMAIN children, g \in BOOLEAN : PruneStep(p, n, g)
    \/ \E p \in Procs : PruneEnd(p)
    \/ \E t \in Instants : Tick(t)
    \/ MenuBackupReturns
    \/ \E y \in BOOLEAN, c \in SchtasksCodes : MenuAskInstall(y, c)
    \/ \E y \in BOOLEAN : MenuAskStop(y)
    \/ \E c \in SchtasksCodes : StopDisable(c)
    \/ \E c \in SchtasksCodes : StopDelete(c)

SpecMenu == InitMenu /\ [][NextMenu]_vars

(***************************************************************************)
(* Definitions used by the properties                                      *)
(***************************************************************************)
\* the snapshot shape: 4 digits, "-", 2 digits, "-", 2 digits, "_", 2 digits,
\* "-", 2 digits and nothing else
IsSnapshotName(s) ==
    /\ Len(s) = 16
    /\ \A i \in {1, 2, 3, 4, 6, 7, 9, 10, 12, 13, 15, 16} : IsDigit(s[i])
    /\ s[5] = "-"
    /\ s[8] = "-"
    /\ s[11] = "_"
    /\ s[14] = "-"

\* the fields of a name of the snapshot shape
FieldsOf(s) ==
    [y |-> DigitsVal(SubSeq(s, 1, 4)), m |-> DigitsVal(SubSeq(s, 6, 7)),
     d |-> DigitsVal(SubSeq(s, 9, 10)), H |-> DigitsVal(SubSeq(s, 12, 13)),
     M |-> DigitsVal(SubSeq(s, 15, 16))]

\* a name of the snapshot shape whose fields are a date and time of the calendar
IsCalendarDate(s) ==
    LET f == FieldsOf(s)
    IN  /\ f.y >= 1
        /\ f.m >= 1
        /\ f.m <= 12
        /\ f.d >= 1
        /\ f.d <= DaysInMonth(f.y, f.m)
        /\ f.H <= 23
        /\ f.M <= 59

\* datetime d lies more than days days before now, to the second
OlderThan(d, now, days) ==
    \/ d.ord + days < now.ord
    \/ d.ord + days = now.ord /\ d.mod * 60 + d.sec < now.mod * 60 + now.sec

\* x occurs in sequence q
Occurs(x, q) == \E i \in 1..Len(q) : q[i] = x

\* x occurs in q and y occurs later
OccursBefore(x, y, q) == \E i, j \in 1..Len(q) : i < j /\ q[i] = x /\ q[j] = y

\* run_once has returned or raised
Left(p) == pc[p] \in {"returned", "exited"}

\* the prune pass of p went through the whole directory
PassDone(p) == Left(p) /\ result[p] = Val(0)

\* the children the prune loop of p has visited
Visited(p) == DOMAIN listing[p] \ todo[p]

Boundary == StampOf(2025, 1, 8, 9, 0)
BoundaryPlusMinute == StampOf(2025, 1, 8, 8, 59)
UserSnapshot == StampOf(2024, 12, 1, 9, 0)
InvalidDate == StampOf(2025, 13, 40, 25, 99)
StampFile == StampOf(2025, 1, 15, 9, 1)
WithNewline == StampOf(2024, 12, 1, 9, 0) \o <<"\n">>

(***************************************************************************)
(* Properties                                                              *)
(***************************************************************************)
\* C1: no step of a cycle or of a prune pass removes or changes a child of the
\* backup root that is a file or a directory without the snapshot shape, and
\* whatever shutil.rmtree is called on was a directory with a name that
\* STAMP_RE matches.
C1_ForeignStep ==
    /\ \A n \in DOMAIN children :
          ~(children[n].kind = "dir" /\ IsSnapshotName(n))
             => n \in DOMAIN children' /\ children'[n] = children[n]
    /\ \A p \in Procs : \A n \in removed'[p] :
          listing'[p][n].kind = "dir" /\ StampReMatch(n)

C1_ForeignEntriesKept == [][C1_ForeignStep]_vars

\* a pass that removed a folder has ended and the foreign directory and the
\* month-old file with a snapshot name are still there
C1_Witness ==
    \E p \in Procs :
        /\ PassDone(p)
        /\ removed[p] # {}
        /\ clock = At(2025, 2, 20, 10, 0, 0)
        /\ {MyImportantData, StampFile, InvalidDate} \subseteq DOMAIN children

\* C2: once the mirror has returned a code in 0..7 the cycle goes on to the
\* prune pass, which is called after the mirror; after a code >= 8 the prune
\* pass is not called and run_once returns that code.
C2_Threshold ==
    \A p \in Procs :
        HasVal(rc[p]) =>
            /\ rc[p].value \in 0..7 =>
                  /\ pc[p] \in {"prune", "loop", "returned", "exited"}
                  /\ pc[p] # "prune" => OccursBefore("robocopy", "prune", calls[p])
            /\ rc[p].value >= 8 =>
                  /\ ~Occurs("prune", calls[p])
                  /\ Left(p)
                  /\ result[p] = Val(rc[p].value)

\* a cycle whose mirror returned 5 has pruned and returned
C2_Witness ==
    \E p \in Procs :
        /\ rc[p] = Val(5)
        /\ PassDone(p)
        /\ removed[p] # {}

C4_InvalidStep ==
    /\ \A n \in DOMAIN children :
          (children[n].kind = "dir" /\ IsSnapshotName(n) /\ ~IsCalendarDate(n))
             => n \in DOMAIN children' /\ children'[n] = children[n]
    /\ \A p \in Procs :
          /\ result'[p] # Err("ValueError")
          /\ (pc'[p] = "returned" /\ result'[p] = Val(0) /\ Occurs("prune", calls'[p]))
                => todo'[p] = {}

C4_InvalidDateKept == [][C4_InvalidStep]_vars

\* a pass at 2025-02-20 with retention 0 listed 2025-13-40_25-99, went on to
\* remove another folder and ended; the folder is still there
C4_Witness ==
    \E p \in Procs :
        /\ PassDone(p)
        /\ InvalidDate \in DOMAIN listing[p]
        /\ InvalidDate \in DOMAIN children
        /\ removed[p] # {}
        /\ rd[p] = 0

\* C5: with the source missing run_once returns 1 without calling anything:
\* no mkdir, no mirror, no prune pass, and the backup root stays as it was.
C5_MissingStep ==
    srcKind = "missing" =>
        /\ children' = children
        /\ rootExists' = rootExists
        /\ \A p \in Procs :
              /\ calls'[p] = <<>>
              /\ dst'[p] = NoName
              /\ pc'[p] \in {"idle", "returned", "exited"}
              /\ pc'[p] \in {"returned", "exited"} => result'[p] = Val(1)

C5_MissingSource == [][C5_MissingStep]_vars

\* a process found the source missing and exited with 1 although a backup
\* root was given that does not exist
C5_Witness ==
    \E p \in Procs :
        /\ srcKind = "missing"
        /\ pc[p] = "exited"
        /\ status[p] = Val(1)
        /\ ~rootExists

\* C6: with the backup root inside the source tree, its children are entries
\* of the source tree; no step removes or changes an entry of the source tree.
C6_SourceStep ==
    rootInSrc =>
        \A n \in DOMAIN children :
            n \in DOMAIN children' /\ children'[n] = children[n]

C6_SourceUntouched == [][C6_SourceStep]_vars

\* C7: whatever shutil.rmtree is called on was created by an earlier cycle of
\* the program.
C7_OnlyOwnFolders ==
    \A p \in Procs : \A n \in removed[p] : listing[p][n].owner = "system"

\* C8: run_once, and headless_run with it, returns 0, 1 or a value >= 8: 1
\* when the source is missing, 0 when the mirror code was in 0..7, the mirror
\* code itself when that is >= 8; the process exits with the returned value.
C8_ReturnValues ==
    \A p \in Procs :
        (Left(p) /\ HasVal(result[p])) =>
            LET v == result[p].value
            IN  /\ v \in {0, 1} \/ v >= 8
                /\ srcKind = "missing" <=> v = 1
                /\ (HasVal(rc[p]) /\ rc[p].value \in 0..7) => v = 0
                /\ (HasVal(rc[p]) /\ rc[p].value >= 8) => v = rc[p].value
                /\ pc[p] = "exited" => status[p] = Val(v)

\* a process exited with 16 after the mirror returned 16
C8_Witness ==
    \E p \in Procs :
        /\ pc[p] = "exited"
        /\ rc[p] = Val(16)
        /\ status[p] = Val(16)

\* C9 as stated: the exit status equals the mirror code, for every code that
\* robocopy documents (0 and up).
C9_StatusIsMirrorCode ==
    \A p \in Procs :
        (pc[p] = "exited" /\ HasVal(result[p]) /\ HasVal(rc[p]) /\ rc[p].value >= 0) =>
            status[p] = Val(rc[p].value)

\* C9: when run_once returns, the exit status is 1 if the source is missing,
\* the mirror code c if c >= 8, and 0 for every mirror code c < 8.
C9_StatusOfCode ==
    \A p \in Procs :
        (pc[p] = "exited" /\ HasVal(result[p])) =>
            status[p] =
                IF ~HasVal(rc[p]) THEN Val(1)
                ELSE IF rc[p].value >= 8 THEN rc[p] ELSE Val(0)

\* a process exited with 0 after the mirror returned 3
C9_Witness ==
    \E p \in Procs :
        /\ pc[p] = "exited"
        /\ rc[p] = Val(3)
        /\ status[p] = Val(0)

\* C10: the test the prune loop applies to the name of a directory is true
\* exactly for the names of the snapshot shape.
C10_ExactShape ==
    \A p \in Procs : \A n \in Visited(p) :
        listing[p][n].kind = "dir" =>
            (IsCandidate(listing[p], n) <=> IsSnapshotName(n))

\* C12: a prune pass that has started comes to its end, and when it has
\* returned and no deletion failed, no directory with a snapshot name whose
\* date lies before now minus retention_days is left in the backup root,
\* in whatever order the children were visited and however many were expired.
C12_NoneLeft ==
    \A p \in Procs :
        (pc[p] = "returned" /\ result[p] = Val(0) /\ removed[p] \cap DOMAIN children = {}) =>
            \A n \in DOMAIN children :
                (children[n].kind = "dir" /\ IsSnapshotName(n) /\ IsCalendarDate(n)) =>
                    LET f == FieldsOf(n)
                    IN  ~OlderThan(At(f.y, f.m, f.d, f.H, f.M, 0), clock, rd[p])

C12_AllEligibleProcessed ==
    /\ []C12_NoneLeft
    /\ \A p \in Procs : (pc[p] = "loop") ~> (pc[p] = "returned")

\* a pass over a root with four expired folders (three found there and the
\* one of an earlier cycle) has returned and none of them is left
C12_Witness ==
    \E p \in Procs :
        /\ pc[p] = "returned"
        /\ result[p] = Val(0)
        /\ Cardinality(removed[p]) >= 4
        /\ removed[p] \cap DOMAIN children = {}
        /\ {n \in DOMAIN children : IsSnapshotName(n)} = {dst[p]}

\* the deletion of n failed in the pass of p: rmtree was called on it and
\* it is still there
FailedIn(p) == removed[p] \cap DOMAIN children

\* C13: a deletion that fails does not end the pass: no exception leaves it,
\* the loop goes on to the end of the listing, every other expired folder of
\* the listing is handed to rmtree and is gone unless its own deletion
\* failed, and run_once returns 0.
C13_FailureIsolated ==
    \A p \in Procs :
        FailedIn(p) # {} =>
            /\ pc[p] \in {"loop", "returned", "exited"}
            /\ ~IsErr(result[p])
            /\ Left(p) =>
                  /\ result[p] = Val(0)
                  /\ todo[p] = {}
                  /\ \A m \in DOMAIN listing[p] :
                        (/\ listing[p][m].kind = "dir"
                         /\ IsSnapshotName(m)
                         /\ IsCalendarDate(m)
                         /\ DtLess(Strptime(m), cutoff[p])) =>
                            /\ m \in removed[p]
                            /\ m \in DOMAIN children => children[m].data = "partial"

\* a pass in which the deletion of one folder failed has removed two others
\* and run_once returned 0
C13_Witness ==
    \E p \in Procs :
        /\ pc[p] = "returned"
        /\ result[p] = Val(0)
        /\ Cardinality(FailedIn(p)) = 1
        /\ Cardinality(removed[p] \ DOMAIN children) >= 2

\* the calls of run_once in the order of its text
CallOrder == <<"mkdir root", "mkdir dst", "robocopy", "prune">>

\* C14: run_once checks the source first (nothing is called when it is
\* missing), then makes the backup root, then names the destination after
\* the current minute and makes it, then invokes the mirror on the
\* destination that exists by then, and starts the prune pass only when the
\* mirror has returned; each call is made at most once and one at a time.
C14_StepOrder ==
    \A p \in Procs :
        /\ Len(calls'[p]) <= Len(CallOrder)
        /\ \A i \in 1..Len(calls'[p]) : calls'[p][i] = CallOrder[i]
        /\ calls'[p] # calls[p] =>
              /\ \/ Len(calls'[p]) = Len(calls[p]) + 1
                 \/ pc[p] = "exited" /\ calls'[p] = <<>>
              /\ \A q \in Procs \ {p} : calls'[q] = calls[q]
        /\ srcKind = "missing" => calls'[p] = <<>>
        /\ Len(calls'[p]) >= 1 => rootExists' \/ result'[p] = Err("OSError")
        /\ (Len(calls[p]) = 1 /\ Len(calls'[p]) = 2) =>
              /\ rootExists
              /\ dst'[p] = TimestampStamp(clock)
              /\ ~IsErr(result'[p]) =>
                    dst'[p] \in DOMAIN children' /\ children'[dst'[p]].kind = "dir"
        /\ (Len(calls[p]) = 2 /\ Len(calls'[p]) = 3) =>
              /\ dst[p] \in DOMAIN children
              /\ children[dst[p]].kind = "dir"
              /\ ~HasVal(rc[p])
        /\ pc'[p] \in {"prune", "loop"} => HasVal(rc'[p]) /\ Len(calls'[p]) >= 3
        /\ Len(calls'[p]) = 4 => HasVal(rc'[p])

C14_Ordered == [][C14_StepOrder]_vars

\* a cycle has gone through all four calls and returned
C14_Witness ==
    \E p \in Procs :
        /\ pc[p] = "returned"
        /\ calls[p] = CallOrder
        /\ dst[p] = StampOf(2025, 1, 15, 9, 0)
        /\ clock = At(2025, 1, 15, 9, 1, 0)

\* C15: run_once always ends by returning 0, 1 or a mirror code >= 8, never
\* by an exception, whatever mkdir, the start of the mirror process and the
\* listing of the backup root do.
C15_AlwaysClassified ==
    \A p \in Procs :
        Left(p) =>
            /\ HasVal(result[p])
            /\ result[p].value \in {0, 1} \/ result[p].value >= 8

\* C16: with the source path being a regular file the mirror is never
\* invoked and what run_once returns is 1, the result of a missing source.
C16_FileIsMissing ==
    \A p \in Procs :
        srcKind = "file" =>
            /\ ~Occurs("robocopy", calls[p])
            /\ (Left(p) /\ HasVal(result[p])) => result[p] = Val(1)

\* C17: the cutoff counts whole days: in a pass that ran to its end with
\* retention_days = N >= 1, a snapshot folder is handed to rmtree exactly when
\* its date lies N or more calendar days before the current date, whatever
\* the two times of day.
C17_WholeDayCutoff ==
    \A p \in Procs :
        (pc[p] = "returned" /\ result[p] = Val(0) /\ rd[p] >= 1) =>
            \A n \in DOMAIN listing[p] :
                (listing[p][n].kind = "dir" /\ IsSnapshotName(n) /\ IsCalendarDate(n)) =>
                    LET f == FieldsOf(n)
                    IN  n \in removed[p] <=> Ymd2Ord(f.y, f.m, f.d) + rd[p] <= clock.ord

\* instant t without its seconds
Truncated(t) == [t EXCEPT !.sec = 0]

\* C11: the identifier timestamp_stamp makes of an instant has the snapshot
\* shape and passes STAMP_RE, and strptime with the same format makes the
\* instant truncated to the minute of it.
C11_RoundTrip ==
    /\ \A i \in 1..Len(stamps) :
          /\ IsSnapshotName(stamps[i])
          /\ StampReMatch(stamps[i])
    /\ parsedOut # None => parsedOut = Truncated(reads[Len(reads)])

\* the last minute of year 9999, read at second 59, came back from its
\* identifier
C11_Witness ==
    /\ reads = <<At(MAXYEAR, 12, 31, 23, 59, 59)>>
    /\ stamps = <<StampOf(MAXYEAR, 12, 31, 23, 59)>>
    /\ parsedOut = At(MAXYEAR, 12, 31, 23, 59, 0)

\* the code points of the characters of an identifier
CharCode(c) == IF c = "-" THEN 45 ELSE IF c = "_" THEN 95 ELSE 48 + DigitVal(c)

\* a < b as Python compares strings
LexLess(a, b) ==
    \E k \in 1..Len(b) :
        /\ \A i \in 1..(k - 1) : i <= Len(a) /\ a[i] = b[i]
        /\ k > Len(a) \/ CharCode(a[k]) < CharCode(b[k])

\* the seconds from reading t1 to reading t2 of the clock
SecondsFrom(t1, t2) ==
    (t2.ord - t1.ord) * 86400 + (t2.mod - t1.mod) * 60 + (t2.sec - t1.sec)

\* C18: of two calls of timestamp_stamp in one process run the later one
\* never returns the smaller identifier, it returns the greater one when its
\* reading of the clock is a minute or more after that of the earlier call,
\* and identifiers compare as the minutes they name.
C18_Monotone ==
    \A i, j \in 1..Len(stamps) :
        /\ i < j => ~LexLess(stamps[j], stamps[i])
        /\ (i < j /\ SecondsFrom(reads[i], reads[j]) >= 60) => LexLess(stamps[i], stamps[j])
        /\ LexLess(stamps[i], stamps[j]) <=> DtLess(Truncated(reads[i]), Truncated(reads[j]))

\* the token parse_args is looking at
Token == argv[argi]

\* C20: every turn of the loop of parse_args moves on in argv; the turn that
\* reads a --retention-days flag with a value that is no integer leaves
\* retention_days at DEFAULT_RETENTION_DAYS and prints a warning; the turn
\* that reads an unknown token changes nothing but the index.
C20_Turn ==
    argi' # argi =>
        /\ argi' > argi
        /\ argi' <= Len(argv) + 1
        /\ (Token = RetentionFlag /\ argi < Len(argv) /\ IsErr(IntOf(argv[argi + 1]))) =>
              /\ args'.retention_days = DEFAULT_RETENTION_DAYS
              /\ warnings' = warnings + 1
        /\ Token \notin {HeadlessFlag, BackupRootFlag, RetentionFlag} =>
              /\ args' = args
              /\ warnings' = warnings
              /\ argi' = argi + 1

C20_InvalidGivesDefault == [][C20_Turn]_vars

\* the prompts among what interactive_main has said
Prompts == SelectSeq(said, LAMBDA x : x \in {"backup?", "install?", "stop?"})

\* C19: whatever the one-time backup, the registration and the stop step
\* do, interactive_main shows the backup, install and stop prompts in this
\* order, is never left before the stop prompt, and returns 0.
C19_AlwaysToTheEnd ==
    /\ ipc # "aborted"
    /\ \A i \in 1..Len(Prompts) : Prompts[i] = <<"backup?", "install?", "stop?">>[i]
    /\ ipc = "ask stop" => Len(Prompts) = 2
    /\ ipc = "done" => Len(Prompts) = 3
    /\ iret # None => ipc = "done" /\ iret = Val(0)

\* the commands stop_task has run
StopCmds == SelectSeq(cmds, LAMBDA c : c[1] \in {"disable", "delete"})

\* C21: stop_task runs the disable command first; the delete command is run
\* exactly when the disable command ended with a code other than 0; a
\* task that was disabled is kept as disabled, and "no task found" is
\* reported only when both commands ended with a code other than 0.
C21_DisableThenDelete ==
    /\ Len(StopCmds) <= 2
    /\ StopCmds # <<>> => StopCmds[1][1] = "disable"
    /\ Len(StopCmds) = 2 => StopCmds[2][1] = "delete" /\ StopCmds[1][2] # 0
    /\ (ipc = "done" /\ Len(StopCmds) = 1) => StopCmds[1][2] = 0
    /\ (ipc = "delete") = (Len(StopCmds) = 1 /\ StopCmds[1][2] # 0)
    /\ (StopCmds # <<>> /\ StopCmds[1][2] = 0) => task = "disabled"
    /\ Occurs("no task found", said) =>
           Len(StopCmds) = 2 /\ StopCmds[1][2] # 0 /\ StopCmds[2][2] # 0

\* stop_task was called with the task in place, the disable command failed
\* and the delete command removed the task
C21_Witness ==
    /\ ipc = "done"
    /\ Len(StopCmds) = 2
    /\ StopCmds[2][2] = 0
    /\ task = "absent"
    /\ Occurs("task deleted", said)

\* C22: whenever run_once returns 0, the destination folder created in
\* that cycle still exists under backup_root, for every integer
\* retention_days and any duration of the mirror step.
C22_OwnSnapshotKept ==
    \A p \in Procs :
        (pc[p] = "returned" /\ result[p] = Val(0)) => dst[p] \in DOMAIN children

\* C23: run_once calls prune_old_backups and returns 0 only when the mirror
\* process ended with one of the codes 0..7; with any other code, a negative
\* one included, the prune pass is not called and the value returned is not 0.
C23_OnlyDocumentedCodesPrune ==
    \A p \in Procs :
        HasVal(rc[p]) =>
            /\ Occurs("prune", calls[p]) => rc[p].value \in 0..7
            /\ (Left(p) /\ HasVal(result[p]) /\ rc[p].value \notin 0..7)
                   => result[p].value # 0

\* C24: the step in which the mirror ends with a code >= 8 deletes nothing
\* and calls no prune pass, it leaves every child of the backup root but the
\* destination folder as it was, and the destination folder stays, a
\* directory with a snapshot name; nothing is removed before the mirror has
\* ended or after run_once has returned the code; a later prune pass removes
\* such a folder exactly when its name parses to a date before the cutoff.
C24_FatalStep ==
    \A p \in Procs :
        /\ (pc[p] = "mirror" /\ pc'[p] = "returned" /\ HasVal(result'[p]))
              => /\ result'[p].value >= 8
                 /\ removed'[p] = {}
                 /\ ~Occurs("prune", calls'[p])
                 /\ DOMAIN children' = DOMAIN children
                 /\ \A n \in DOMAIN children \ {dst[p]} : children'[n] = children[n]
                 /\ dst[p] \in DOMAIN children'
                 /\ IsCandidate(children', dst[p])
                 /\ IsSnapshotName(dst[p])
        /\ (pc[p] \in {"mkroot", "mkdst", "mirror"}
               \/ (pc[p] = "returned" /\ HasVal(rc[p]) /\ rc[p].value >= 8))
              => \A n \in DOMAIN children :
                     /\ n \in DOMAIN children'
                     /\ n # dst'[p] => children'[n] = children[n]
        /\ \A n \in todo[p] \ todo'[p] :
               children[n].data = "incomplete"
                  => (n \in removed'[p] <=> IsExpired(n, cutoff[p]))

C24_FatalLeavesRoot == [][C24_FatalStep]_vars

\* the folder a failed cycle left behind was removed by the prune pass of a
\* later cycle, which returned 0
C24_Witness ==
    \E p \in Procs : \E n \in removed[p] :
        /\ PassDone(p)
        /\ listing[p][n].data = "incomplete"
        /\ n \notin DOMAIN children

\* C25: with two cycles on the same backup root and retention_days >= 1, no
\* prune pass hands to shutil.rmtree the destination folder the other cycle
\* is mirroring into, and a cycle that takes its timestamp in the minute of
\* the other cycle's destination folder uses that folder.
C25_OverlapStep ==
    \A p, q \in Procs :
        p # q =>
            /\ pc[q] = "mirror" => dst[q] \notin removed'[p] \ removed[p]
            /\ (pc[p] = "mkdst" /\ pc'[p] = "mirror" /\ dst[q] # NoName
                   /\ Strptime(dst[q]) = Truncated(clock))
                  => dst'[p] = dst[q]

C25_NoInterference == [][C25_OverlapStep]_vars

====
